---- MODULE Spec2Model ----
\* Model of src/Timer.py: the Timer class (start/stop state machine, the
\* scoped-block and decorator idioms, the class-level registry `timers`
\* and the report methods), with Python values and exceptions modelled by
\* tagged records so that the result of every expression of the source is
\* computed the way the interpreter computes it.
\*
\* The model describes the class body as written, once the module is loaded
\* (line 11, `import functools.wraps`, names no importable module; the class
\* body itself does not depend on it except through functools.wraps at
\* line 37, which only copies metadata of the wrapped function).
EXTENDS Integers, Sequences, FiniteSets, TLC

\* ------------------------------------------------------------------ bounds
\* Largest reading of time.perf_counter().
MaxClock == 1
\* Largest number of stop() calls of Running named Timers that are accounted for.
MaxStops == 1

\* The Timer instances that are constructed, numbered in order of construction.
Instances == {1, 2}

\* ----------------------------------------------------------- Python values
PyNone == [type |-> "NoneType"]
PyStr(s) == [type |-> "str", v |-> s]
PyInt(n) == [type |-> "int", v |-> n]
PyFloat(n) == [type |-> "float", v |-> n]
\* A callable object (a logger callback, a function).
PyCallable(f) == [type |-> "function", v |-> f]
\* The attribute time.perf_counter itself (not a call of it).
PerfCounterAttr == [type |-> "builtin_function_or_method", v |-> "perf_counter"]

\* Python truth value of an object, as tested by `if x:`.
Truthy(x) ==
  CASE x.type = "NoneType" -> FALSE
    [] x.type = "str" -> x.v # ""
    [] x.type = "int" -> x.v # 0
    [] x.type = "float" -> x.v # 0
    [] OTHER -> TRUE

IsNumber(x) == x.type \in {"int", "float"}

\* ------------------------------------------------------------- exceptions
NoExc == [type |-> "none", fmt |-> "", arg |-> PyNone]
Exc(type, fmt, arg) == [type |-> type, fmt |-> fmt, arg |-> arg]

\* The three TimerError messages of the source.
MsgRunning == "Timer is running. Use .stop() to stop it"
MsgNotRunning == "Timer is not running. Use .start() to start it."
MsgNoTimer == "No timer called {name} found."

\* class TimerError(Exception), raised with a message.
TimerError(fmt, arg) == Exc("TimerError", fmt, arg)

\* The error kinds of the specification, as the source raises them.
AlreadyRunning == TimerError(MsgRunning, PyNone)
NotRunning == TimerError(MsgNotRunning, PyNone)
UnknownTimer(name) == TimerError(MsgNoTimer, name)

\* The exception a protected block or a wrapped function raises.
BodyError == Exc("RuntimeError", "body", PyNone)

\* Result of evaluating an expression: a value, or an exception raised.
Val(v) == [exc |-> NoExc, ret |-> v]
Err(e) == [exc |-> e, ret |-> PyNone]

\* a - b on Python objects.
PySub(a, b) ==
  IF IsNumber(a) /\ IsNumber(b)
  THEN Val([type |-> IF a.type = "int" /\ b.type = "int" THEN "int" ELSE "float",
            v |-> a.v - b.v])
  ELSE Err(Exc("TypeError", "unsupported operand type(s) for -", PyNone))

\* a + b (and a += b) on Python objects: numbers add, str concatenates with str.
PyAdd(a, b) ==
  IF IsNumber(a) /\ IsNumber(b)
  THEN Val([type |-> IF a.type = "int" /\ b.type = "int" THEN "int" ELSE "float",
            v |-> a.v + b.v])
  ELSE IF a.type = "text" /\ b.type = "text"
  THEN Val([type |-> "text", lines |-> a.lines \o b.lines])
  ELSE Err(Exc("TypeError", "unsupported operand type(s) for +", PyNone))

\* ------------------------------------------------------------------ state
VARIABLES
  timers,      \* Timer.timers: the class-level dict, as its items in insertion order
  alive,       \* the Timer instances constructed so far
  start_time,  \* self._start_time of each instance
  name,        \* self._name
  logger,      \* self._logger
  logged,      \* the messages each instance's logger callback has received
  clock,       \* the current reading of time.perf_counter()
  stops,       \* history: stop() calls made so far on Running Timers that have a name
  due,         \* history: per name, the sum of (clock - _start_time) over those calls
  last         \* history: the last call, its pre-state and its outcome

vars == <<timers, alive, start_time, name, logger, logged, clock, stops, due, last>>

\* ------------------------------------------------------- the dict `timers`
Keys(d) == {d[i].key : i \in DOMAIN d}
HasKey(d, k) == k \in Keys(d)
IndexOf(d, k) == CHOOSE i \in DOMAIN d : d[i].key = k
\* d[k] for a key that is present.
Get(d, k) == d[IndexOf(d, k)].value
\* d.setdefault(k, v): inserts k at the end when absent, else leaves d alone.
SetDefault(d, k, v) ==
  IF HasKey(d, k) THEN d ELSE Append(d, [key |-> k, value |-> v])
\* d[k] = v: replaces in place when present, inserts at the end when absent.
SetItem(d, k, v) ==
  IF HasKey(d, k) THEN [d EXCEPT ![IndexOf(d, k)].value = v]
  ELSE Append(d, [key |-> k, value |-> v])

\* ------------------------------------------------- objects and attributes
\* The mutable program state a method works on.
\* `trace` is history: the start(), stop() and body executions of the call
\* under way, each with the _start_time it found.
State == [timers |-> timers, start_time |-> start_time, logged |-> logged,
          trace |-> <<>>]
Called(s, self, call) ==
  [s EXCEPT !.trace = Append(@, [call |-> call, at |-> s.start_time[self]])]

\* A method's outcome: the exception raised (or NoExc), the value returned, the
\* state it leaves.
Return(s, v) == [exc |-> NoExc, ret |-> v, s |-> s]
Raise(s, e) == [exc |-> e, ret |-> PyNone, s |-> s]

\* The default of the `text` parameter of __init__.
DefaultText == "Task took: {:0.6f} seconds."

\* text.format(v): the template with its placeholder filled by v.
Format(text, v) == [type |-> "str", fmt |-> text, arg |-> v]

\* self.<attr>: the data attributes __init__ sets and the class attribute
\* `timers`; any other name raises AttributeError.
GetAttr(s, self, attr) ==
  CASE attr = "_start_time" -> Val(s.start_time[self])
    [] attr = "_name" -> Val(name[self])
    [] attr = "_text" -> Val(PyStr(DefaultText))
    [] attr = "_logger" -> Val(logger[self])
    [] attr = "timers" -> Val([type |-> "dict"])
    [] OTHER -> Err(Exc("AttributeError", attr, PyNone))

\* A load of a local variable of a function: UnboundLocalError when the
\* variable has not been assigned yet.
LoadLocal(bound, var) ==
  IF var \in bound THEN Val([type |-> "text", lines |-> <<>>])
  ELSE Err(Exc("UnboundLocalError", var, PyNone))

\* --------------------------------------------------------------- __init__
\* Timer.__init__: the registry after constructing a Timer named nm.
\* __init__ registering on `name is not None`: the empty name gets an entry.
init_timers_always(d, nm) ==
  IF nm # PyNone THEN SetDefault(d, nm, PyInt(0)) ELSE d

\* __init__ without lines 23-24: registration left to a later step.
init_timers_deferred(d, nm) == d

\* __init__ binding a dict of its own, `timers = {name: 0}`.
init_timers_fresh(d, nm) ==
  IF Truthy(nm) THEN <<[key |-> nm, value |-> PyInt(0)]>> ELSE d

init_timers(d, nm) ==
  IF Truthy(nm) THEN SetDefault(d, nm, PyInt(0)) ELSE d

\* ------------------------------------------------------------------ start
\* start() without the guard of line 49: a running Timer is restarted.
start_body_restart(s, self, now) ==
  Return([s EXCEPT !.start_time[self] = PyFloat(now)], PyNone)

start_body(s, self, now) ==
  IF s.start_time[self] # PyNone
  THEN Raise(s, AlreadyRunning)
  ELSE Return([s EXCEPT !.start_time[self] = PyFloat(now)], PyNone)

start(s, self, now) == start_body(Called(s, self, "start"), self, now)

\* ------------------------------------------------------------------- stop
\* Lines 68-69: `if self._logger: self.logger(self.text.format(elapsed))`.
stop_log(s, self, elapsed) ==
  IF ~Truthy(logger[self]) THEN Return(s, PyNone)
  ELSE LET fn == GetAttr(s, self, "logger")
           tx == GetAttr(s, self, "text")
       IN IF fn.exc # NoExc THEN Raise(s, fn.exc)
          ELSE IF tx.exc # NoExc THEN Raise(s, tx.exc)
          ELSE Return([s EXCEPT !.logged[self] =
                                  Append(@, Format(tx.ret.v, elapsed))], PyNone)

\* Lines 71-72: `if self._name: self.timers[self._name] += elapsed`.
stop_add(s, self, elapsed) ==
  IF ~Truthy(name[self]) THEN Return(s, PyNone)
  ELSE IF ~HasKey(s.timers, name[self])
  THEN Raise(s, Exc("KeyError", "key", name[self]))
  ELSE LET sum == PyAdd(Get(s.timers, name[self]), elapsed)
       IN IF sum.exc # NoExc THEN Raise(s, sum.exc)
          ELSE Return([s EXCEPT !.timers = SetItem(@, name[self], sum.ret)], PyNone)

\* stop() returning silently where line 63 raises.
stop_body_silent(s, self) ==
  IF s.start_time[self] = PyNone
  THEN Return(s, PyNone)
  ELSE Raise(s, Exc("TypeError", "unsupported operand type(s) for -", PyNone))

stop_body(s, self) ==
  IF s.start_time[self] = PyNone
  THEN Raise(s, NotRunning)
  ELSE LET elapsed == PySub(PerfCounterAttr, s.start_time[self])
       IN IF elapsed.exc # NoExc THEN Raise(s, elapsed.exc)
          ELSE LET l == stop_log(s, self, elapsed.ret)
               IN IF l.exc # NoExc THEN l
                  ELSE LET a == stop_add(l.s, self, elapsed.ret)
                       IN IF a.exc # NoExc THEN a
                          ELSE Return(a.s, elapsed.ret)

stop(s, self) == stop_body(Called(s, self, "stop"), self)

\* ----------------------------------------------------- report_saved_timer
\* The local variables of report_saved_timer bound when line 89 runs: its
\* parameters (`_report` is assigned nowhere before its first use).
SavedTimerLocals == {"self", "name"}

\* The str of lines a report returns: each line is a key and what is shown for it.
Text(lines) == [type |-> "text", lines |-> lines]

\* Line 89, in evaluation order:
\* `_report += f"{self.name}: {self.text.format(self.timers[self.name])}"`.
saved_timer_line(s, self, n) ==
  LET old == LoadLocal(SavedTimerLocals, "_report")
      nm == GetAttr(s, self, "name")
      tx == GetAttr(s, self, "text")
  IN IF old.exc # NoExc THEN Err(old.exc)
     ELSE IF nm.exc # NoExc THEN Err(nm.exc)
     ELSE IF tx.exc # NoExc THEN Err(tx.exc)
     ELSE IF ~HasKey(s.timers, nm.ret) THEN Err(Exc("KeyError", "key", nm.ret))
     ELSE PyAdd(old.ret,
                Text(<<[key |-> nm.ret,
                        value |-> Format(tx.ret.v, Get(s.timers, nm.ret))]>>))

\* report_saved_timer looking the name up with setdefault: a miss adds an entry.
report_saved_timer_creating(s, self, n) ==
  LET r == saved_timer_line(s, self, n)
  IN IF r.exc = NoExc THEN Return(s, r.ret)
     ELSE Raise([s EXCEPT !.timers = SetDefault(@, n, PyInt(0))], r.exc)

report_saved_timer(s, self, n) ==
  LET r == saved_timer_line(s, self, n)
  IN IF r.exc = NoExc THEN Return(s, r.ret)
     ELSE IF r.exc.type = "KeyError" THEN Raise(s, UnknownTimer(n))
     ELSE Raise(s, r.exc)

\* ----------------------------------------------------------------- report
\* Lines 113-114: one line f"{key}: {value}\n" per item, in the dict's order.
\* The loop of lines 113-114 run over reversed(self.timers.items()).
report_all_reversed(d) ==
  Text([i \in DOMAIN d |-> [key |-> d[Len(d) + 1 - i].key,
                            value |-> d[Len(d) + 1 - i].value]])

report_all(d) == Text([i \in DOMAIN d |-> [key |-> d[i].key, value |-> d[i].value]])

report(s, self, n) ==
  IF n # PyNone THEN report_saved_timer(s, self, n)
  ELSE IF Len(s.timers) > 0
  THEN LET r == PyAdd(Text(<<>>), report_all(s.timers))
       IN IF r.exc # NoExc THEN Raise(s, r.exc) ELSE Return(s, r.ret)
  ELSE LET st == stop(s, self)
       IN IF st.exc # NoExc THEN st
          ELSE LET r == PyAdd(Text(<<>>), st.ret)
               IN IF r.exc # NoExc THEN Raise(st.s, r.exc) ELSE Return(st.s, r.ret)

\* ------------------------------------------- context manager and decorator
enter(s, self, now) ==
  LET r == start(s, self, now)
  IN IF r.exc # NoExc THEN r ELSE Return(r.s, [type |-> "Timer", v |-> self])

\* __exit__(*exc_info): returns what falls off the end of the method, None.
exit(s, self) ==
  LET r == stop(s, self)
  IN IF r.exc # NoExc THEN r ELSE Return(r.s, PyNone)

\* What a protected block (or a wrapped function) does: it returns a value,
\* raises, or enters the same Timer again around a block that returns.
Bodies == {"return", "raise", "reenter"}
BodyResult == PyStr("result")

RECURSIVE with_block(_, _, _, _)
\* The body of a `with self:` statement run in state s.
run_body(s, self, now, body) ==
  LET b == Called(s, self, "body")
  IN CASE body = "return" -> Return(b, BodyResult)
       [] body = "raise" -> Raise(b, BodyError)
       [] body = "reenter" -> with_block(b, self, now, "return")

\* `with self: <body>`: __enter__, the body, then __exit__ on every exit of the
\* body; an exception of __exit__ replaces the body's, a true return value of
\* __exit__ suppresses it.
with_block(s, self, now, body) ==
  LET e == enter(s, self, now)
  IN IF e.exc # NoExc THEN e
     ELSE LET b == run_body(e.s, self, now, body)
              x == exit(b.s, self)
          IN IF x.exc # NoExc THEN x
             ELSE IF b.exc # NoExc /\ ~Truthy(x.ret) THEN Raise(x.s, b.exc)
             ELSE IF b.exc # NoExc THEN Return(x.s, PyNone)
             ELSE Return(x.s, b.ret)

\* wrapper_timer(*args, **kwargs): `with self: return funcion(*args, **kwargs)`.
wrapper_timer(s, self, now, f) == with_block(s, self, now, f)

\* ---------------------------------------------------------------- actions
\* The arguments the operations are called with.
Names == {PyStr("x"), PyStr("y")}
NameArgs == {PyNone, PyStr("")} \cup Names
Loggers == {PyNone, PyCallable("log")}

RECURSIVE RunningStops(_)
\* The stop() calls of a trace that found the Timer Running.
RunningStops(tr) ==
  IF tr = <<>> THEN <<>>
  ELSE IF Head(tr).call = "stop" /\ Head(tr).at # PyNone
  THEN <<Head(tr)>> \o RunningStops(Tail(tr))
  ELSE RunningStops(Tail(tr))

RECURSIVE SumElapsed(_, _)
\* now - _start_time summed over the stop() calls of a sequence of them.
SumElapsed(ss, now) ==
  IF ss = <<>> THEN 0 ELSE (now - Head(ss).at.v) + SumElapsed(Tail(ss), now)

NoCall ==
  [op |-> "none", self |-> 0, arg |-> PyNone, exc |-> NoExc, ret |-> PyNone,
   pre |-> [timers |-> <<>>, start_time |-> <<>>, logged |-> <<>>],
   trace |-> <<>>, now |-> 0]

Init ==
  /\ timers = <<>>
  /\ alive = {}
  /\ start_time = [t \in Instances |-> PyNone]
  /\ name = [t \in Instances |-> PyNone]
  /\ logger = [t \in Instances |-> PyNone]
  /\ logged = [t \in Instances |-> <<>>]
  /\ clock = 0
  /\ stops = 0
  /\ due = [n \in Names |-> 0]
  /\ last = NoCall

\* A call op(arg) on t with outcome r, ending when the clock reads `now`.
Finish(op, t, arg, r, now) ==
  LET ss == IF name[t] \in Names THEN RunningStops(r.s.trace) ELSE <<>>
  IN /\ stops + Len(ss) <= MaxStops
     /\ timers' = r.s.timers
     /\ start_time' = r.s.start_time
     /\ logged' = r.s.logged
     /\ clock' = now
     /\ stops' = stops + Len(ss)
     /\ due' = IF ss = <<>> THEN due
               ELSE [due EXCEPT ![name[t]] = @ + SumElapsed(ss, now)]
     /\ last' = [op |-> op, self |-> t, arg |-> arg, exc |-> r.exc, ret |-> r.ret,
                 pre |-> [timers |-> timers, start_time |-> start_time,
                          logged |-> logged],
                 trace |-> r.s.trace, now |-> now]
     /\ UNCHANGED <<alive, name, logger>>

\* time.perf_counter() advances.
Tick ==
  /\ clock < MaxClock
  /\ clock' = clock + 1
  /\ UNCHANGED <<timers, alive, start_time, name, logger, logged, stops, due, last>>

\* Timer(name=nm, logger=lg): instances are numbered in order of construction.
Construct(nm, lg) ==
  LET t == Cardinality(alive) + 1
  IN /\ t \in Instances
     /\ alive' = alive \cup {t}
     /\ start_time' = [start_time EXCEPT ![t] = PyNone]
     /\ name' = [name EXCEPT ![t] = nm]
     /\ logger' = [logger EXCEPT ![t] = lg]
     /\ timers' = init_timers(timers, nm)
     /\ last' = [NoCall EXCEPT !.op = "init", !.self = t, !.arg = nm,
                   !.pre = [timers |-> timers, start_time |-> start_time,
                            logged |-> logged],
                   !.now = clock]
     /\ UNCHANGED <<logged, clock, stops, due>>

Start(t) == Finish("start", t, PyNone, start(State, t, clock), clock)

Stop(t) == Finish("stop", t, PyNone, stop(State, t), clock)

\* t.report_saved_timer(n)
ReportSaved(t, n) ==
  Finish("report_saved_timer", t, n, report_saved_timer(State, t, n), clock)

\* t.report(n), n = None included
Report(t, n) == Finish("report", t, n, report(State, t, n), clock)

\* `with t: <body>`, the body taking d ticks of the clock.
With(t, body, d) ==
  /\ clock + d <= MaxClock
  /\ Finish("with", t, PyStr(body), with_block(State, t, clock, body), clock + d)

\* A call of the function Timer.__call__ returns, f taking d ticks.
Call(t, f, d) ==
  /\ clock + d <= MaxClock
  /\ Finish("call", t, PyStr(f), wrapper_timer(State, t, clock, f), clock + d)

Next ==
  \/ Tick
  \/ \E nm \in NameArgs, lg \in Loggers : Construct(nm, lg)
  \/ \E t \in alive : Start(t)
  \/ \E t \in alive : Stop(t)
  \/ \E t \in alive, n \in Names : ReportSaved(t, n)
  \/ \E t \in alive, n \in {PyNone} \cup Names : Report(t, n)
  \/ \E t \in alive, body \in Bodies, d \in 0..1 : With(t, body, d)
  \/ \E t \in alive, f \in Bodies, d \in 0..1 : Call(t, f, d)

Spec == Init /\ [][Next]_vars

\* ----------------------------------------------------------------- claims
\* The Timer of the last call, whether that call found it Running, and the
\* duration a stop() made in that call measures.
Self == last.self
WasRunning == last.pre.start_time[Self] # PyNone
Elapsed == last.now - last.pre.start_time[Self].v
Idle(t) == start_time[t] = PyNone
\* The accumulated value of name n in registry d (zero without an entry).
RegValue(d, n) == IF HasKey(d, n) THEN Get(d, n).v ELSE 0
\* The calls a trace is made of, in order.
CallsOf(tr) == [i \in DOMAIN tr |-> tr[i].call]

\* C1: a stop() of a Running Timer succeeds and leaves the Timer Idle, so that
\* a start() issued directly after it succeeds (the cycle can be repeated).
C1_StopClearsStartInstant ==
  (last.op = "stop" /\ WasRunning) =>
    /\ last.exc = NoExc
    /\ Idle(Self)
    /\ start(State, Self, clock).exc = NoExc

C3_StartRunningFailsAlreadyRunning ==
  (last.op = "start" /\ WasRunning) =>
    /\ last.exc = AlreadyRunning
    /\ start_time[Self] = last.pre.start_time[Self]
    /\ timers = last.pre.timers

\* start() has just failed on a Timer started at an earlier clock reading.
C3_Witness ==
  /\ last.op = "start" /\ WasRunning
  /\ last.exc = AlreadyRunning
  /\ last.pre.start_time[Self].v < last.now
  /\ start_time[Self].v < last.now

\* C4: for every name n the Registry value for n is the sum of the elapsed
\* durations of the stop() calls made so far by Running Timers named n.
C4_RegistryIsSumOfStops ==
  \A n \in Names : RegValue(timers, n) = due[n]

\* C5: a stop() of a Running Timer named n adds its elapsed duration to the
\* entry for n, whichever instance of that name it is, and leaves every other
\* entry unchanged; a stop() of an unnamed Timer leaves the Registry unchanged.
C5_StopTouchesOnlyOwnEntry ==
  (last.op = "stop" /\ WasRunning) =>
    IF Truthy(name[Self])
    THEN /\ RegValue(timers, name[Self]) =
              RegValue(last.pre.timers, name[Self]) + Elapsed
         /\ \A m \in Keys(last.pre.timers) \ {name[Self]} :
              RegValue(timers, m) = RegValue(last.pre.timers, m)
         /\ Keys(timers) = Keys(last.pre.timers) \cup {name[Self]}
    ELSE timers = last.pre.timers

\* C6: a scoped block entered on an Idle Timer runs stop() once on exit,
\* leaves the Timer Idle, and the caller sees the block's own outcome: its
\* error when it raises, a normal completion when it does not.
C6_ScopeStopsAndPropagates ==
  (last.op = "with" /\ ~WasRunning /\ last.arg \in {PyStr("return"), PyStr("raise")}) =>
    /\ CallsOf(last.trace) = <<"start", "body", "stop">>
    /\ Idle(Self)
    /\ last.exc = IF last.arg = PyStr("raise") THEN BodyError ELSE NoExc

\* C7: a call of a wrapped callable on an Idle Timer is one start(), one call
\* of f and one stop(), leaves the Timer Idle (so the next call is a cycle of
\* its own), returns f's result unchanged and propagates f's error.
C7_WrappedCallIsOneCycle ==
  (last.op = "call" /\ ~WasRunning /\ last.arg \in {PyStr("return"), PyStr("raise")}) =>
    /\ CallsOf(last.trace) = <<"start", "body", "stop">>
    /\ Idle(Self)
    /\ wrapper_timer(State, Self, clock, "return").exc = NoExc
    /\ IF last.arg = PyStr("raise")
       THEN last.exc = BodyError
       ELSE last.exc = NoExc /\ last.ret = BodyResult

\* C8: a stop() made while another Timer of the same name is still measuring
\* (their measurements interleave) loses nothing: the entry grows by exactly
\* the elapsed duration of that stop().
C8_InterleavedStopsLoseNothing ==
  (/\ last.op = "stop" /\ WasRunning /\ name[Self] \in Names
   /\ \E u \in alive \ {Self} :
        name[u] = name[Self] /\ last.pre.start_time[u] # PyNone) =>
    RegValue(timers, name[Self]) >= RegValue(last.pre.timers, name[Self]) + Elapsed

\* C9: report_saved_timer(n), and report(n) with a name, return the line for
\* n with the Registry's current value for n, whatever the calling Timer's own
\* name, and fail with UnknownTimer exactly when the Registry has no entry for n.
C9_NamedReportReadsEntry ==
  (last.op \in {"report_saved_timer", "report"} /\ last.arg # PyNone) =>
    IF HasKey(last.pre.timers, last.arg)
    THEN /\ last.exc = NoExc
         /\ last.ret = Text(<<[key |-> last.arg,
                               value |-> Format(DefaultText, Get(timers, last.arg))]>>)
    ELSE last.exc = UnknownTimer(last.arg)

\* C10: report() with no name on an empty Registry does what stop() is to do:
\* on a Running Timer it returns the elapsed duration and leaves the Timer
\* Idle, the logger invoked when set; on an Idle Timer it fails with NotRunning.
C10_FallbackReportIsStop ==
  (last.op = "report" /\ last.arg = PyNone /\ last.pre.timers = <<>>) =>
    IF WasRunning
    THEN /\ last.exc = NoExc
         /\ last.ret = PyFloat(Elapsed)
         /\ Idle(Self)
         /\ Len(logged[Self]) =
              Len(last.pre.logged[Self]) + (IF Truthy(logger[Self]) THEN 1 ELSE 0)
    ELSE last.exc = NotRunning

\* C11: report() with no name on a non-empty Registry returns exactly one
\* line per Registry entry, each with that key's current value, in the order
\* in which the names were first registered.
\* The instance whose construction registered name k.
FirstNamed(k) ==
  CHOOSE t \in alive : name[t] = k /\ \A u \in alive : name[u] = k => t <= u

C11_ReportAllListsEveryEntry ==
  (last.op = "report" /\ last.arg = PyNone /\ last.pre.timers # <<>>) =>
    /\ last.exc = NoExc
    /\ last.ret.type = "text"
    /\ Len(last.ret.lines) = Cardinality(Keys(timers))
    /\ {last.ret.lines[i].key : i \in DOMAIN last.ret.lines} = Keys(timers)
    /\ \A i \in DOMAIN last.ret.lines :
         last.ret.lines[i].value = Get(timers, last.ret.lines[i].key)
    /\ \A i, j \in DOMAIN last.ret.lines :
         i < j => FirstNamed(last.ret.lines[i].key) < FirstNamed(last.ret.lines[j].key)

\* report() has just listed a Registry of two names, "y" registered first.
C11_Witness ==
  /\ last.op = "report" /\ last.arg = PyNone
  /\ last.exc = NoExc
  /\ Len(last.ret.lines) = 2
  /\ last.ret.lines[1].key = PyStr("y")

\* C12: a Timer's logger is invoked exactly once, with the rendered elapsed
\* duration, by every stop() of that Timer while Running, and by nothing else:
\* not by start(), by a stop() while Idle, by a named report or by a report
\* of all entries; a Timer without a logger never invokes one.
C12_LoggerOncePerStop ==
  /\ (last.op = "stop" /\ WasRunning) =>
       logged = [last.pre.logged EXCEPT ![Self] =
                   IF Truthy(logger[Self])
                   THEN Append(@, Format(DefaultText, PyFloat(Elapsed)))
                   ELSE @]
  /\ (\/ last.op \in {"start", "report_saved_timer"}
      \/ last.op = "stop" /\ ~WasRunning
      \/ last.op = "report" /\ (last.arg # PyNone \/ last.pre.timers # <<>>)) =>
       logged = last.pre.logged

\* C13: every stop() of a Running Timer returns an elapsed duration >= 0 (the
\* clock never goes back), and every Registry entry is >= 0 in every state.
C13_DurationsNonNegative ==
  /\ \A i \in DOMAIN timers : timers[i].value.v >= 0
  /\ (last.op = "stop" /\ WasRunning) =>
       /\ last.exc = NoExc
       /\ IsNumber(last.ret)
       /\ last.ret.v = Elapsed /\ last.ret.v >= 0

\* C14 as claimed: constructing a Timer, named or not, creates no Registry
\* entry (the entry is left to the first stop()).
C14_ConstructionRegistersNothing ==
  (last.op = "init") => timers = last.pre.timers

\* C14 as amended: constructing a Timer with a non-empty name creates the
\* Registry entry for that name, at zero and after the existing entries, when
\* the name has none yet, and changes nothing otherwise; so once a named Timer
\* has been constructed the Registry is not empty and report() with no name
\* lists the entries without calling stop().
C14_ConstructionRegistersName ==
  /\ (last.op = "init") =>
       timers = IF Truthy(last.arg) /\ ~HasKey(last.pre.timers, last.arg)
                THEN Append(last.pre.timers, [key |-> last.arg, value |-> PyInt(0)])
                ELSE last.pre.timers
  /\ \A t \in alive :
       (\E u \in alive : Truthy(name[u])) =>
         /\ timers # <<>>
         /\ CallsOf(report(State, t, PyNone).s.trace) = <<>>

\* A Timer named "x" has just been constructed and no Timer has been stopped;
\* the Registry holds the new entry for "x".
C14_Witness ==
  /\ last.op = "init" /\ last.arg = PyStr("x")
  /\ ~HasKey(last.pre.timers, PyStr("x"))
  /\ HasKey(timers, PyStr("x"))
  /\ stops = 0

\* C15: the three misuses give three different error kinds: start() while
\* Running gives AlreadyRunning, stop() or the fallback report while Idle
\* gives NotRunning, a named report of an absent name gives UnknownTimer.
C15_ErrorKindsDistinct ==
  /\ (last.op = "start" /\ WasRunning) => last.exc = AlreadyRunning
  /\ (/\ \/ last.op = "stop"
         \/ last.op = "report" /\ last.arg = PyNone /\ last.pre.timers = <<>>
      /\ ~WasRunning) => last.exc = NotRunning
  /\ (/\ last.op \in {"report", "report_saved_timer"} /\ last.arg # PyNone
      /\ ~HasKey(last.pre.timers, last.arg)) =>
       /\ last.exc = UnknownTimer(last.arg)
       /\ last.exc \notin {AlreadyRunning, NotRunning}
  /\ AlreadyRunning # NotRunning

\* C16: in a stop() of a Running Timer the Timer becomes Idle first, then
\* the logger is invoked, then the Registry is updated; so when such a stop()
\* ends in an error (as when the logger raises) the Timer is already Idle, a
\* later start() succeeds and the Registry has not been changed by that stop().
C16_IdleBeforeLoggerBeforeAdd ==
  (last.op = "stop" /\ WasRunning /\ Truthy(logger[Self])) =>
    /\ Idle(Self)
    /\ Len(logged[Self]) = Len(last.pre.logged[Self]) + 1
    /\ last.exc # NoExc =>
         /\ timers = last.pre.timers
         /\ start(State, Self, clock).exc = NoExc

\* C17: a named report, found or not, and a report of all entries of a
\* non-empty Registry leave every Timer's start instant, every Registry entry,
\* the Registry's keys and their order, and the loggers' output unchanged.
C17_ReportsReadOnly ==
  (\/ last.op = "report_saved_timer"
   \/ last.op = "report" /\ (last.arg # PyNone \/ last.pre.timers # <<>>)) =>
    /\ start_time = last.pre.start_time
    /\ timers = last.pre.timers
    /\ logged = last.pre.logged

\* A Running Timer has just asked for the report of a name that has no entry
\* in a non-empty Registry: it is still Running and the name still has none.
C17_Witness ==
  /\ last.op \in {"report", "report_saved_timer"} /\ last.arg # PyNone
  /\ last.exc # NoExc
  /\ timers # <<>> /\ ~HasKey(timers, last.arg)
  /\ ~Idle(Self)

\* C18: over every step a name of the Registry stays in it and its value does
\* not decrease; constructing a Timer with a name that already has an entry,
\* whatever the entry's value, leaves the Registry as it is.
C18_RegistryMonotone ==
  [][/\ \A k \in Keys(timers) :
          HasKey(timers', k) /\ RegValue(timers', k) >= RegValue(timers, k)
     /\ \A n \in Names, v \in 0..MaxClock :
          init_timers(<<[key |-> n, value |-> PyFloat(v)]>>, n) =
            <<[key |-> n, value |-> PyFloat(v)]>>]_vars

\* A second Timer has just been constructed with a name that already had an
\* entry: the Registry is as it was.
C18_Witness ==
  /\ last.op = "init" /\ HasKey(last.pre.timers, last.arg)
  /\ timers = last.pre.timers

\* C19: a block (or wrapped function) that, entered on an Idle Timer, enters
\* the same Timer again: the inner enter fails with AlreadyRunning and runs no
\* inner stop(), the outer exit calls stop() once, the Timer ends Idle, the
\* caller receives AlreadyRunning and a named Timer gets one contribution.
C19_ReentrantEnterFailsOnce ==
  (last.op \in {"with", "call"} /\ last.arg = PyStr("reenter") /\ ~WasRunning) =>
    /\ CallsOf(last.trace) = <<"start", "body", "start", "stop">>
    /\ last.exc = AlreadyRunning
    /\ Idle(Self)
    /\ name[Self] \in Names =>
         RegValue(timers, name[Self]) =
           RegValue(last.pre.timers, name[Self]) + (last.now - start_time[Self].v)

\* C20: every Timer with a non-empty name has its Registry entry from its
\* construction on, so the accumulate step of stop(), run on any Running
\* Timer in any reachable state, adds in place and raises no KeyError; a Timer
\* named None or "" registers nothing at construction and its accumulate step
\* leaves the Registry unchanged.
C20_EntryPresentAtAccumulate ==
  /\ \A t \in alive : Truthy(name[t]) => HasKey(timers, name[t])
  /\ \A t \in alive :
       start_time[t] # PyNone =>
         LET e == clock - start_time[t].v
             a == stop_add(State, t, PyFloat(e))
         IN /\ a.exc = NoExc
            /\ IF Truthy(name[t])
               THEN /\ Keys(a.s.timers) = Keys(timers)
                    /\ RegValue(a.s.timers, name[t]) = RegValue(timers, name[t]) + e
               ELSE a.s.timers = timers
  /\ (last.op = "init" /\ ~Truthy(last.arg)) => timers = last.pre.timers
  /\ last.exc.type # "KeyError"

\* stop() has just been called on a Running Timer named "x", started a tick
\* earlier, while a Timer with the empty name exists and has no entry.
C20_Witness ==
  /\ last.op = "stop" /\ WasRunning /\ name[Self] = PyStr("x")
  /\ Elapsed > 0
  /\ \E u \in alive : name[u] = PyStr("")
  /\ Keys(timers) = {PyStr("x")}

====
